---- MODULE Spec2Model ----
(***************************************************************************)
(* Model of app.py of the transaction dashboard: one run of main() over a  *)
(* decoded batch of transaction events.  The data frame is a sequence of   *)
(* rows plus the set of columns it carries; render_section calls the       *)
(* aggregations in source order and a KeyError raised by pandas for a      *)
(* column that is not there ends the run.                                  *)
(***************************************************************************)
EXTENDS Integers, Sequences, FiniteSets, TLC

VARIABLES
    df,             \* rows of the loaded data frame, in input order
    columns,        \* the columns the data frame carries
    pc,             \* position of the run inside main / render_section
    error,          \* "" or the column whose lookup raised KeyError
    warned,         \* columns reported missing by prepare_common_cols
    status_overall, \* result of compute_status_overall
    kpi,            \* the numbers render_kpi_cards derives
    s_country,      \* compute_status_by_group(df, "country_name")
    s_payment,      \* compute_status_by_group(df, "payment_name")
    df_sorted,      \* compute_durations: the sorted frame
    idx,            \* compute_durations: next row of df_sorted to visit
    last_verify,    \* compute_durations: the pending verification per key
    durations,      \* compute_durations: the samples appended so far
    by_country,     \* compute_durations: first returned table
    by_payment      \* compute_durations: second returned table

vars == <<df, columns, pc, error, warned, status_overall, kpi, s_country,
          s_payment, df_sorted, idx, last_verify, durations, by_country,
          by_payment>>

-----------------------------------------------------------------------------
(* Values *)

\* a missing cell (pandas NaN / None)
NaN == "NaN"

\* 24 * 3600 * 1000, the outlier bound of compute_durations
DAY_MS == 86400000

needed == {"id", "user_id", "createdAt", "status", "payment_id", "country_id",
           "country_name", "payment_name", "method"}

KeyStatuses == {"accepted", "rejected", "pending", "processing", "is_verify_code"}

\* the result of a division by pd.NA
NA == [defined |-> FALSE, num |-> 0, den |-> 0]

\* the quotient num / den of two numbers, kept exact
Quot(num, den) == [defined |-> TRUE, num |-> num, den |-> den]

EmptyFrame == [k \in {} |-> 0]

\* Python's order on the identifiers that occur as user_id / payment_name
StrRank(s) ==
    CASE s = "p1" -> 1
      [] s = "p2" -> 2
      [] s = "u1" -> 3
      [] s = "u2" -> 4
      [] OTHER -> 5

RECURSIVE SumSeq(_)
SumSeq(s) == IF s = <<>> THEN 0 ELSE Head(s) + SumSeq(Tail(s))

RECURSIVE SumOver(_, _)
SumOver(f, S) ==
    IF S = {} THEN 0
    ELSE LET x == CHOOSE y \in S : TRUE IN f[x] + SumOver(f, S \ {x})

Front(s) == SubSeq(s, 1, Len(s) - 1)

Last(s) == s[Len(s)]

-----------------------------------------------------------------------------
(* prepare_common_cols *)

MissingColumns(cols) == needed \ cols

PrepareCommonCols ==
    /\ pc = "prepare"
    /\ warned' = MissingColumns(columns)
    /\ pc' = "status_overall"
    /\ UNCHANGED <<df, columns, error, status_overall, kpi, s_country,
                   s_payment, df_sorted, idx, last_verify, durations,
                   by_country, by_payment>>

-----------------------------------------------------------------------------
(* compute_status_overall *)

CountStatus(rows, s) == Cardinality({i \in DOMAIN rows : rows[i].status = s})

\* df["status"].value_counts(): one entry per observed (non-missing) status,
\* then share = count / count.sum()
StatusOverall(rows) ==
    LET obs == {rows[i].status : i \in DOMAIN rows} \ {NaN}
        n == [s \in obs |-> CountStatus(rows, s)]
        tot == SumOver(n, obs)
    IN [s \in obs |-> [count |-> n[s], share |-> Quot(n[s], tot)]]

ComputeStatusOverall ==
    /\ pc = "status_overall"
    /\ IF "status" \in columns
       THEN /\ status_overall' = StatusOverall(df)
            /\ pc' = "kpi"
            /\ error' = error
       ELSE /\ error' = "status"
            /\ pc' = "aborted"
            /\ status_overall' = status_overall
    /\ UNCHANGED <<df, columns, warned, kpi, s_country, s_payment, df_sorted,
                   idx, last_verify, durations, by_country, by_payment>>

-----------------------------------------------------------------------------
(* render_kpi_cards *)

safe_int_from_status(so, status_name) ==
    IF DOMAIN so = {} THEN 0
    ELSE IF status_name \in DOMAIN so THEN so[status_name].count ELSE 0

\* the value of   (x / denom * 100) if denom else 0.0
PercentOrZero(x, denom) == IF denom # 0 THEN Quot(x * 100, denom) ELSE Quot(0, 1)

KpiCards(so) ==
    LET total_tx == IF DOMAIN so # {}
                    THEN SumOver([s \in DOMAIN so |-> so[s].count], DOMAIN so)
                    ELSE 0
        accepted_count == safe_int_from_status(so, "accepted")
        pending_count == safe_int_from_status(so, "pending")
        rejected_count == safe_int_from_status(so, "rejected")
        strict_denom == accepted_count + rejected_count
    IN [total_tx |-> total_tx,
        accepted_count |-> accepted_count,
        pending_count |-> pending_count,
        rejected_count |-> rejected_count,
        strict_denom |-> strict_denom,
        combined_rate |-> PercentOrZero(accepted_count + pending_count, total_tx),
        strict_rate |-> PercentOrZero(accepted_count, strict_denom)]

RenderKpiCards ==
    /\ pc = "kpi"
    /\ kpi' = KpiCards(status_overall)
    /\ pc' = "by_country"
    /\ UNCHANGED <<df, columns, error, warned, status_overall, s_country,
                   s_payment, df_sorted, idx, last_verify, durations,
                   by_country, by_payment>>

-----------------------------------------------------------------------------
(* compute_status_by_group *)

\* the "for col in [...]: if col not in table.columns: table[col] = 0" loop
ZeroFill(cols) == cols \cup KeyStatuses

\* a total that adds up the five named statuses only
RowTotalKeyOnly(counts) == SumOver(counts, KeyStatuses \cap DOMAIN counts)

\* table.sum(axis=1) over the status columns of one row
RowTotal(counts) == SumOver(counts, DOMAIN counts)

\* x / denom.replace(0, pd.NA)
DivNA(x, denom) == IF denom = 0 THEN NA ELSE Quot(x, denom)

\* groupby([group_col, "status"]).size().unstack(fill_value=0): rows whose
\* group value or status is missing are dropped by groupby
StatusByGroup(rows, group_col) ==
    LET kept == {i \in DOMAIN rows : rows[i][group_col] # NaN /\ rows[i].status # NaN}
        dims == {rows[i][group_col] : i \in kept}
        cols == ZeroFill({rows[i].status : i \in kept})
        counts(d) == [c \in cols |->
                        Cardinality({i \in kept : rows[i][group_col] = d
                                                  /\ rows[i].status = c})]
    IN [d \in dims |->
          LET cnt == counts(d)
              total == RowTotal(cnt)
          IN [counts |-> cnt,
              total |-> total,
              success_rate_combined |->
                  DivNA(cnt["accepted"] + cnt["pending"], total),
              success_rate_strict |->
                  DivNA(cnt["accepted"], cnt["accepted"] + cnt["rejected"])]]

ComputeStatusByCountry ==
    /\ pc = "by_country"
    /\ IF {"country_name", "status"} \subseteq columns
       THEN /\ s_country' = StatusByGroup(df, "country_name")
            /\ pc' = "by_payment"
            /\ error' = error
       ELSE /\ error' = (IF "country_name" \in columns THEN "status"
                         ELSE "country_name")
            /\ pc' = "aborted"
            /\ s_country' = s_country
    /\ UNCHANGED <<df, columns, warned, status_overall, kpi, s_payment,
                   df_sorted, idx, last_verify, durations, by_country,
                   by_payment>>

ComputeStatusByPayment ==
    /\ pc = "by_payment"
    /\ IF {"payment_name", "status"} \subseteq columns
       THEN /\ s_payment' = StatusByGroup(df, "payment_name")
            /\ pc' = "durations"
            /\ error' = error
       ELSE /\ error' = (IF "payment_name" \in columns THEN "status"
                         ELSE "payment_name")
            /\ pc' = "aborted"
            /\ s_payment' = s_payment
    /\ UNCHANGED <<df, columns, warned, status_overall, kpi, s_country,
                   df_sorted, idx, last_verify, durations, by_country,
                   by_payment>>

-----------------------------------------------------------------------------
(* compute_durations *)

\* row a sorts no later than row b under ["user_id", "payment_name", "createdAt"]
SortKeyLeq(a, b) ==
    \/ StrRank(a.user_id) < StrRank(b.user_id)
    \/ /\ a.user_id = b.user_id
       /\ \/ StrRank(a.payment_name) < StrRank(b.payment_name)
          \/ /\ a.payment_name = b.payment_name
             /\ a.createdAt <= b.createdAt

\* x put behind every row of the sorted s that sorts no later than x
RECURSIVE InsertRow(_, _)
InsertRow(s, x) ==
    IF s = <<>> THEN <<x>>
    ELSE IF SortKeyLeq(Last(s), x) THEN Append(s, x)
    ELSE Append(InsertRow(Front(s), x), Last(s))

\* a frame left in input order
SortValuesIdentity(rows) == rows

\* df.sort_values([...]) on several columns: a stable sort, rows with equal
\* keys keep their input order
RECURSIVE SortValues(_)
SortValues(rows) ==
    IF rows = <<>> THEN <<>>
    ELSE InsertRow(SortValues(Front(rows)), Last(rows))

KeyOf(row) == <<row.user_id, row.payment_name>>

\* a first verification that is never replaced by a later one
SetVerifyKeepFirst(lv, key, t) ==
    [k \in DOMAIN lv \cup {key} |-> IF k \in DOMAIN lv THEN lv[k] ELSE t]

\* last_verify[key] = row.createdAt
SetVerify(lv, key, t) ==
    [k \in DOMAIN lv \cup {key} |-> IF k = key THEN t ELSE lv[k]]

\* a pending entry that is never removed
DelVerifyNoop(lv, key) == lv

\* del last_verify[key]
DelVerify(lv, key) == [k \in DOMAIN lv \ {key} |-> lv[k]]

\* a bound that lets a full day through
InRangeInclusive(dt_ms) == 0 < dt_ms /\ dt_ms <= DAY_MS

\* 0 < dt_ms < 24 * 3600 * 1000
InRange(dt_ms) == 0 < dt_ms /\ dt_ms < DAY_MS

Sample(row, dt_ms) ==
    [user_id |-> row.user_id, payment_name |-> row.payment_name,
     accepted_createdAt |-> row.createdAt, duration_ms |-> dt_ms]

\* the statuses the loop acts on
IsVerify(status) == status = "is_verify_code"

IsAccepted(status) == status = "accepted"

\* a loop body that reads a missing pending entry as timestamp 0
LoopBodyDefaultZero(row, lv, durs) ==
    LET key == KeyOf(row) IN
    IF IsVerify(row.status)
    THEN [last_verify |-> SetVerify(lv, key, row.createdAt), durations |-> durs]
    ELSE IF IsAccepted(row.status)
    THEN LET dt_ms == row.createdAt - (IF key \in DOMAIN lv THEN lv[key] ELSE 0) IN
         [last_verify |-> DelVerify(lv, key),
          durations |-> IF InRange(dt_ms)
                        THEN Append(durs, Sample(row, dt_ms))
                        ELSE durs]
    ELSE [last_verify |-> lv, durations |-> durs]

\* a loop body in which any other status drops the pending entry
LoopBodyOtherClears(row, lv, durs) ==
    LET key == KeyOf(row) IN
    IF IsVerify(row.status)
    THEN [last_verify |-> SetVerify(lv, key, row.createdAt), durations |-> durs]
    ELSE IF IsAccepted(row.status)
    THEN IF key \in DOMAIN lv
         THEN LET dt_ms == row.createdAt - lv[key] IN
              [last_verify |-> DelVerify(lv, key),
               durations |-> IF InRange(dt_ms)
                             THEN Append(durs, Sample(row, dt_ms))
                             ELSE durs]
         ELSE [last_verify |-> lv, durations |-> durs]
    ELSE [last_verify |-> DelVerify(lv, key), durations |-> durs]

\* one iteration of   for row in df_sorted.itertuples()
LoopBody(row, lv, durs) ==
    LET key == KeyOf(row) IN
    IF IsVerify(row.status)
    THEN [last_verify |-> SetVerify(lv, key, row.createdAt), durations |-> durs]
    ELSE IF IsAccepted(row.status)
    THEN IF key \in DOMAIN lv
         THEN LET dt_ms == row.createdAt - lv[key] IN
              [last_verify |-> DelVerify(lv, key),
               durations |-> IF InRange(dt_ms)
                             THEN Append(durs, Sample(row, dt_ms))
                             ELSE durs]
         ELSE [last_verify |-> lv, durations |-> durs]
    ELSE [last_verify |-> lv, durations |-> durs]

\* df[df["status"] == "accepted"], in the order of df
AcceptedRows(rows) == SelectSeq(rows, LAMBDA r : r.status = "accepted")

\* the rows a left merge produces for one sample: one per accepted row with
\* the same (user_id, payment_name, createdAt), or one with no country
MergeOne(d, accepted) ==
    LET hits == SelectSeq(accepted, LAMBDA r :
                    /\ r.user_id = d.user_id
                    /\ r.payment_name = d.payment_name
                    /\ r.createdAt = d.accepted_createdAt)
    IN IF hits = <<>>
       THEN <<[payment_name |-> d.payment_name, country_name |-> NaN,
               duration_ms |-> d.duration_ms]>>
       ELSE [i \in 1..Len(hits) |->
               [payment_name |-> d.payment_name,
                country_name |-> hits[i].country_name,
                duration_ms |-> d.duration_ms]]

RECURSIVE Merge(_, _)
Merge(durs, accepted) ==
    IF durs = <<>> THEN <<>>
    ELSE MergeOne(Head(durs), accepted) \o Merge(Tail(durs), accepted)

\* the k-th smallest entry of a non-empty sequence of numbers
Kth(vals, k) ==
    CHOOSE v \in {vals[i] : i \in DOMAIN vals} :
        /\ Cardinality({i \in DOMAIN vals : vals[i] < v}) < k
        /\ k <= Cardinality({i \in DOMAIN vals : vals[i] <= v})

\* .agg(["count", "median", "mean", "max"]) of duration_sec = duration_ms / 1000
AggStats(vals) ==
    LET n == Len(vals) IN
    [count |-> n,
     median |-> IF n % 2 = 1 THEN Quot(Kth(vals, (n + 1) \div 2), 1000)
                ELSE Quot(Kth(vals, n \div 2) + Kth(vals, n \div 2 + 1), 2000),
     mean |-> Quot(SumSeq(vals), n * 1000),
     max |-> Quot(Kth(vals, n), 1000)]

RECURSIVE DurationsOf(_, _, _)
DurationsOf(merged, col, d) ==
    IF merged = <<>> THEN <<>>
    ELSE IF Head(merged)[col] = d
         THEN <<Head(merged).duration_ms>> \o DurationsOf(Tail(merged), col, d)
         ELSE DurationsOf(Tail(merged), col, d)

\* merged.groupby(col)["duration_sec"].agg(...): rows whose group value is
\* missing are dropped by groupby
GroupDurations(merged, col) ==
    LET dims == {merged[i][col] : i \in DOMAIN merged} \ {NaN}
    IN [d \in dims |-> AggStats(DurationsOf(merged, col, d))]

DurationsBegin ==
    /\ pc = "durations"
    /\ IF "createdAt" \notin columns \/ "status" \notin columns
       THEN /\ by_country' = EmptyFrame
            /\ by_payment' = EmptyFrame
            /\ pc' = "done"
            /\ UNCHANGED <<error, df_sorted, idx, last_verify, durations>>
       ELSE IF "user_id" \notin columns \/ "payment_name" \notin columns
       THEN /\ error' = (IF "user_id" \in columns THEN "payment_name"
                         ELSE "user_id")
            /\ pc' = "aborted"
            /\ UNCHANGED <<df_sorted, idx, last_verify, durations, by_country,
                           by_payment>>
       ELSE /\ df_sorted' = SortValues(df)
            /\ durations' = <<>>
            /\ last_verify' = EmptyFrame
            /\ idx' = 1
            /\ pc' = "loop"
            /\ UNCHANGED <<error, by_country, by_payment>>
    /\ UNCHANGED <<df, columns, warned, status_overall, kpi, s_country,
                   s_payment>>

DurationsLoop ==
    /\ pc = "loop"
    /\ idx <= Len(df_sorted)
    /\ LET r == LoopBody(df_sorted[idx], last_verify, durations) IN
         /\ last_verify' = r.last_verify
         /\ durations' = r.durations
    /\ idx' = idx + 1
    /\ UNCHANGED <<df, columns, pc, error, warned, status_overall, kpi,
                   s_country, s_payment, df_sorted, by_country, by_payment>>

DurationsFinish ==
    /\ pc = "loop"
    /\ idx > Len(df_sorted)
    /\ IF durations = <<>>
       THEN /\ by_country' = EmptyFrame
            /\ by_payment' = EmptyFrame
            /\ pc' = "done"
            /\ error' = error
       ELSE IF "country_name" \notin columns
       THEN /\ error' = "country_name"
            /\ pc' = "aborted"
            /\ UNCHANGED <<by_country, by_payment>>
       ELSE LET merged == Merge(durations, AcceptedRows(df)) IN
            /\ by_payment' = GroupDurations(merged, "payment_name")
            /\ by_country' = GroupDurations(merged, "country_name")
            /\ pc' = "done"
            /\ error' = error
    /\ UNCHANGED <<df, columns, warned, status_overall, kpi, s_country,
                   s_payment, df_sorted, idx, last_verify, durations>>

-----------------------------------------------------------------------------
(* main: the batches a run is started on *)

Row(u, p, t, s, c) ==
    [user_id |-> u, payment_name |-> p, createdAt |-> t, status |-> s,
     country_name |-> c]

\* all batches of at most n rows drawn from Events
Batches(Events, n) == UNION {[1..k -> Events] : k \in 0..n}

InitWith(dfs, colsets) ==
    /\ df \in dfs
    /\ columns \in colsets
    /\ pc = "prepare"
    /\ error = ""
    /\ warned = {}
    /\ status_overall = EmptyFrame
    /\ kpi = EmptyFrame
    /\ s_country = EmptyFrame
    /\ s_payment = EmptyFrame
    /\ df_sorted = <<>>
    /\ idx = 0
    /\ last_verify = EmptyFrame
    /\ durations = <<>>
    /\ by_country = EmptyFrame
    /\ by_payment = EmptyFrame

Next ==
    \/ PrepareCommonCols
    \/ ComputeStatusOverall
    \/ RenderKpiCards
    \/ ComputeStatusByCountry
    \/ ComputeStatusByPayment
    \/ DurationsBegin
    \/ DurationsLoop
    \/ DurationsFinish

\* batches over two users of one payment method, with timestamps around the
\* one-day bound
MaxLen == 3

CorrelatorEvents ==
    {Row(u, "p1", t, s, "FR") :
        u \in {"u1", "u2"}, t \in {0, 100, DAY_MS},
        s \in {"is_verify_code", "accepted", "rejected"}}

Init == InitWith(Batches(CorrelatorEvents, MaxLen), {needed})

Spec == Init /\ [][Next]_vars

\* batches that vary status, country and payment method
MaxLenStatus == 2

StatusEvents ==
    {Row("u1", p, 0, s, c) :
        p \in {"p1", "p2"}, s \in KeyStatuses \cup {"failed"},
        c \in {"FR", "DE", NaN}}

InitStatus == InitWith(Batches(StatusEvents, MaxLenStatus), {needed})

SpecStatus == InitStatus /\ [][Next]_vars

\* batches around the end-to-end scenario: its three events, a second
\* acceptance without a country and an event of another payment method
MaxLenScenario == 3

ScenarioBatch ==
    <<Row("u1", "p1", 100, "is_verify_code", NaN),
      Row("u1", "p1", 2500, "accepted", "FR"),
      Row("u2", "p1", 0, "rejected", NaN)>>

ScenarioEvents ==
    {ScenarioBatch[i] : i \in 1..3}
      \cup {Row("u1", "p1", 2500, "accepted", NaN),
            Row("u2", "p2", 100, "is_verify_code", "FR")}

InitScenario == InitWith(Batches(ScenarioEvents, MaxLenScenario), {needed})

SpecScenario == InitScenario /\ [][Next]_vars

\* frames that lack at most one of the needed columns; the cells of a column
\* that is not there are placeholders no operation reads
MaxLenMissing == 2

MissingEvents ==
    {Row(u, p, t, s, c) :
        u \in {"u1", NaN}, p \in {"p1", NaN}, t \in {0, 100},
        s \in {"is_verify_code", "accepted", NaN}, c \in {"FR", NaN}}

CellsMatchColumns(rows, cols) ==
    \A i \in DOMAIN rows :
      /\ rows[i].user_id = NaN <=> "user_id" \notin cols
      /\ rows[i].payment_name = NaN <=> "payment_name" \notin cols
      /\ rows[i].status = NaN <=> "status" \notin cols
      /\ "createdAt" \notin cols => rows[i].createdAt = 0
      /\ "country_name" \notin cols => rows[i].country_name = NaN

InitMissing ==
    /\ InitWith(Batches(MissingEvents, MaxLenMissing),
                {needed} \cup {needed \ {c} : c \in needed})
    /\ CellsMatchColumns(df, columns)

SpecMissing == InitMissing /\ [][Next]_vars

-----------------------------------------------------------------------------
(* Properties of the correlator loop of compute_durations *)

Correlated == {"is_verify_code", "accepted"}

InLoopStep == pc = "loop" /\ idx <= Len(df_sorted)

CurRow == df_sorted[idx]

AllKeys == {KeyOf(df[i]) : i \in DOMAIN df}

SamplesOfKey(k) ==
    SelectSeq(durations, LAMBDA d : <<d.user_id, d.payment_name>> = k)

SetMax(S) == CHOOSE x \in S : \A y \in S : y <= x

\* the rows of key k already visited that set or consume a pending entry
Visited(k) ==
    {j \in 1..(idx - 1) : KeyOf(df_sorted[j]) = k
                          /\ df_sorted[j].status \in Correlated}

PendingIsLatestVerify ==
    pc = "loop" =>
      \A k \in AllKeys :
        IF Visited(k) = {} \/ df_sorted[SetMax(Visited(k))].status = "accepted"
        THEN k \notin DOMAIN last_verify
        ELSE /\ k \in DOMAIN last_verify
             /\ last_verify[k] = df_sorted[SetMax(Visited(k))].createdAt

\* the rows of df with key k are verify@t0, verify@t1, accepted@t2
TwoVerifiesOneAccept(k, t0, t1, t2) ==
    LET rows == {i \in DOMAIN df : KeyOf(df[i]) = k} IN
    /\ Cardinality(rows) = 3
    /\ \E a, b, c \in rows :
         /\ df[a].status = "is_verify_code" /\ df[a].createdAt = t0
         /\ df[b].status = "is_verify_code" /\ df[b].createdAt = t1
         /\ df[c].status = "accepted" /\ df[c].createdAt = t2
    /\ t0 < t1 /\ t1 < t2 /\ t2 - t1 < 86400000

Timestamps == {df[i].createdAt : i \in DOMAIN df}

\* C1: the pending map holds, per key, exactly the createdAt of the latest
\* is_verify_code event not yet consumed by an accepted event; and a key with
\* verify@t0, verify@t1, accepted@t2 ends with the single sample t2 - t1
C1_LatestVerificationCounts ==
    /\ PendingIsLatestVerify
    /\ pc = "done" =>
         \A k \in AllKeys : \A t0, t1, t2 \in Timestamps :
           TwoVerifiesOneAccept(k, t0, t1, t2) =>
             SamplesOfKey(k) =
               <<[user_id |-> k[1], payment_name |-> k[2],
                  accepted_createdAt |-> t2, duration_ms |-> t2 - t1]>>

C1_Witness ==
    /\ pc = "done"
    /\ TwoVerifiesOneAccept(<<"u1", "p1">>, 0, 100, DAY_MS)
    /\ Len(durations) = 1

\* C2: an accepted event with a pending verification appends a sample exactly
\* when 0 < createdAt - pending < 86400000, and the sample carries that
\* difference and the accepted event's createdAt
C2_SampleIffInBound ==
    [][ (InLoopStep /\ CurRow.status = "accepted"
         /\ KeyOf(CurRow) \in DOMAIN last_verify) =>
          LET duration_ms == CurRow.createdAt - last_verify[KeyOf(CurRow)] IN
          IF 0 < duration_ms /\ duration_ms < 86400000
          THEN durations' =
                 Append(durations,
                        [user_id |-> CurRow.user_id,
                         payment_name |-> CurRow.payment_name,
                         accepted_createdAt |-> CurRow.createdAt,
                         duration_ms |-> duration_ms])
          ELSE durations' = durations ]_vars

\* a run that dropped an acceptance exactly one day after its verification and
\* kept one 100 ms short of a day
C2_Witness ==
    /\ pc = "done"
    /\ \E i, j \in DOMAIN df_sorted :
         /\ i + 1 = j
         /\ df_sorted[i] = Row("u1", "p1", 0, "is_verify_code", "FR")
         /\ df_sorted[j] = Row("u1", "p1", DAY_MS, "accepted", "FR")
    /\ durations = <<>>

\* C3: an accepted event with a pending verification always removes the
\* pending entry, so a key never has more samples than verifications and an
\* acceptance that follows a consumed verification emits nothing
C3_VerificationConsumedOnce ==
    /\ [](pc \in {"loop", "done"} =>
           \A k \in AllKeys :
             Len(SamplesOfKey(k)) <=
               Cardinality({j \in 1..(idx - 1) :
                              /\ KeyOf(df_sorted[j]) = k
                              /\ df_sorted[j].status = "is_verify_code"}))
    /\ [][ (InLoopStep /\ CurRow.status = "accepted") =>
             /\ KeyOf(CurRow) \notin DOMAIN last_verify'
             /\ (idx > 1 /\ KeyOf(df_sorted[idx - 1]) = KeyOf(CurRow)
                 /\ df_sorted[idx - 1].status = "accepted")
                  => durations' = durations ]_vars

\* verify@0, accepted@0 (discarded), accepted@100: no sample
C3_Witness ==
    /\ pc = "done"
    /\ df_sorted = <<Row("u1", "p1", 0, "is_verify_code", "FR"),
                     Row("u1", "p1", 0, "accepted", "FR"),
                     Row("u1", "p1", 100, "accepted", "FR")>>
    /\ durations = <<>>

CountWhere(rows, col, v, s) ==
    Cardinality({i \in DOMAIN rows : rows[i][col] = v /\ rows[i].status = s})

AcceptedCounted ==
    pc = "done" =>
      \A i \in DOMAIN df :
        df[i].status = "accepted" =>
          /\ "accepted" \in DOMAIN status_overall
          /\ status_overall["accepted"].count = CountStatus(df, "accepted")
          /\ df[i].payment_name \in DOMAIN s_payment
          /\ s_payment[df[i].payment_name].counts["accepted"] =
               CountWhere(df, "payment_name", df[i].payment_name, "accepted")
          /\ df[i].country_name \in DOMAIN s_country
          /\ s_country[df[i].country_name].counts["accepted"] =
               CountWhere(df, "country_name", df[i].country_name, "accepted")

OnlyCorrelated(rows) == SelectSeq(rows, LAMBDA r : r.status \in Correlated)

\* the samples of a sorted batch of verify / accepted rows only: an accepted
\* row directly behind a verify row of its key, within the bound
ExpectedSamples(F) ==
    LET hit == {j \in 2..Len(F) :
                  /\ F[j].status = "accepted"
                  /\ F[j - 1].status = "is_verify_code"
                  /\ KeyOf(F[j - 1]) = KeyOf(F[j])
                  /\ 0 < F[j].createdAt - F[j - 1].createdAt
                  /\ F[j].createdAt - F[j - 1].createdAt < 86400000}
        pick[j \in 0..Len(F)] ==
            IF j = 0 THEN <<>>
            ELSE IF j \in hit
                 THEN Append(pick[j - 1],
                             [user_id |-> F[j].user_id,
                              payment_name |-> F[j].payment_name,
                              accepted_createdAt |-> F[j].createdAt,
                              duration_ms |-> F[j].createdAt - F[j - 1].createdAt])
                 ELSE pick[j - 1]
    IN pick[Len(F)]

\* C10: rows whose status is neither is_verify_code nor accepted change
\* neither the pending map nor the samples, the samples are those of the batch
\* without such rows, and a row touches only the pending entry of its own key
C10_OtherStatusesAndKeysUntouched ==
    /\ [](pc = "done" =>
            durations = ExpectedSamples(SortValues(OnlyCorrelated(df))))
    /\ [][ InLoopStep =>
             /\ CurRow.status \notin Correlated =>
                  last_verify' = last_verify /\ durations' = durations
             /\ \A k \in AllKeys \ {KeyOf(CurRow)} :
                  /\ k \in DOMAIN last_verify' <=> k \in DOMAIN last_verify
                  /\ k \in DOMAIN last_verify => last_verify'[k] = last_verify[k]
             /\ \A n \in 1..Len(durations') :
                  n <= Len(durations)
                    => durations'[n] = durations[n]
             /\ \A n \in (Len(durations) + 1)..Len(durations') :
                  <<durations'[n].user_id, durations'[n].payment_name>>
                     = KeyOf(CurRow) ]_vars

\* verify@0, rejected@0, accepted@100 on one key: the sample is 100 ms
C10_Witness ==
    /\ pc = "done"
    /\ df_sorted = <<Row("u1", "p1", 0, "is_verify_code", "FR"),
                     Row("u1", "p1", 0, "rejected", "FR"),
                     Row("u1", "p1", 100, "accepted", "FR")>>
    /\ durations = <<[user_id |-> "u1", payment_name |-> "p1",
                      accepted_createdAt |-> 100, duration_ms |-> 100]>>

-----------------------------------------------------------------------------
(* Properties of the status aggregations *)

RowsCounted(table, col) ==
    \A d \in DOMAIN table :
      /\ KeyStatuses \subseteq DOMAIN table[d].counts
      /\ \A c \in KeyStatuses :
           table[d].counts[c] = CountWhere(df, col, d, c)
      /\ table[d].total =
           Cardinality({i \in DOMAIN df : df[i][col] = d})

\* C5: every row of compute_status_by_group carries the five named status
\* columns with the number of events of that status and dimension value (0
\* when there is none), and total is the number of events of that value
C5_ZeroFilledColumnsAndTotal ==
    /\ RowsCounted(s_country, "country_name")
    /\ RowsCounted(s_payment, "payment_name")

\* a batch with a status outside the five and without any pending event
C5_Witness ==
    /\ pc = "done"
    /\ df = <<Row("u1", "p1", 0, "failed", "FR"),
              Row("u1", "p2", 0, "accepted", "FR")>>
    /\ s_country["FR"].total = 2
    /\ s_country["FR"].counts["pending"] = 0
    /\ s_payment["p1"].total = 1

RatesMarked(table) ==
    \A d \in DOMAIN table :
      /\ table[d].success_rate_strict.defined
           <=> table[d].counts["accepted"] + table[d].counts["rejected"] # 0
      /\ table[d].success_rate_combined.defined <=> table[d].total # 0

\* C6: wherever a rate is computed it is the undefined marker exactly when its
\* denominator is zero: strict when accepted + rejected = 0, combined when
\* total = 0, in compute_status_by_group and in render_kpi_cards
C6_UndefinedRateIsMarked ==
    /\ RatesMarked(s_country)
    /\ RatesMarked(s_payment)
    /\ DOMAIN kpi # {} =>
         /\ kpi.strict_rate.defined <=> kpi.strict_denom # 0
         /\ kpi.combined_rate.defined <=> kpi.total_tx # 0

\* C7: a missing column is reported and never ends the run
C7_NoMissingFieldIsFatal ==
    /\ pc # "prepare" => warned = needed \ columns
    /\ pc # "aborted"
    /\ error = ""

-----------------------------------------------------------------------------
(* The end-to-end scenario and the duration tables *)

IsScenario ==
    /\ Len(df) = 3
    /\ {df[i] : i \in 1..3} = {ScenarioBatch[i] : i \in 1..3}

ScenarioTables ==
    /\ "p1" \in DOMAIN s_payment
    /\ s_payment["p1"].total = 3
    /\ s_payment["p1"].counts["accepted"] = 1
    /\ s_payment["p1"].counts["rejected"] = 1
    /\ s_payment["p1"].success_rate_strict = Quot(1, 2)
    /\ durations = <<[user_id |-> "u1", payment_name |-> "p1",
                      accepted_createdAt |-> 2500, duration_ms |-> 2400]>>
    /\ DOMAIN by_country = {"FR"}
    /\ by_country["FR"].count = 1
    /\ by_country["FR"].median = Quot(2400, 1000)
    /\ DOMAIN by_payment = {"p1"}
    /\ by_payment["p1"].count = 1
    /\ by_payment["p1"].median = Quot(2400, 1000)

\* C8 as stated: the overall counts of the scenario are {accepted: 1,
\* rejected: 1}, with the by-group row and the single 2400 ms sample
C8_ScenarioAsStated ==
    (IsScenario /\ pc = "done") =>
      /\ DOMAIN status_overall = {"accepted", "rejected"}
      /\ status_overall["accepted"].count = 1
      /\ status_overall["rejected"].count = 1
      /\ ScenarioTables

\* C8: on the scenario batch, in any input order, the overall counts are
\* {accepted: 1, rejected: 1, is_verify_code: 1}, the p1 row has total 3,
\* accepted 1, rejected 1 and strict rate 1/2, and there is one sample of
\* 2400 ms, counted once under FR and once under p1
C8_Scenario ==
    (IsScenario /\ pc = "done") =>
      /\ DOMAIN status_overall = {"accepted", "rejected", "is_verify_code"}
      /\ \A st \in DOMAIN status_overall :
           status_overall[st] = [count |-> 1, share |-> Quot(1, 3)]
      /\ ScenarioTables

C8_Witness ==
    /\ df = ScenarioBatch
    /\ pc = "done"
    /\ Len(durations) = 1
    /\ by_country["FR"].count = 1

SamplesOfPayment(p) == SelectSeq(durations, LAMBDA d : d.payment_name = p)

TableCount(table) ==
    SumOver([d \in DOMAIN table |-> table[d].count], DOMAIN table)

\* C9: each emitted sample is counted exactly once: a by_payment row counts
\* the samples the loop emitted for that payment_name, and the by_country
\* counts add up to the by_payment counts
C9_OneRowPerSample ==
    pc = "done" =>
      /\ \A p \in DOMAIN by_payment :
           by_payment[p].count = Len(SamplesOfPayment(p))
      /\ TableCount(by_country) = TableCount(by_payment)

====
